---------------------------- MODULE Spec2Model ----------------------------
(***************************************************************************)
(* Model of CAeroModelCoeffLift (src/src/AeroModel/AeroModelCLift.cpp):    *)
(* the lift-coefficient object, the two static lookup tables it owns, the  *)
(* shared simulation state it reads and writes, and its Compute() method.  *)
(*                                                                         *)
(* Numbers.  The program computes in AAC_FLOAT/double.  The model computes *)
(* in exact rational arithmetic: a number is a pair <<n, d>> with d > 0    *)
(* in lowest terms, so two numbers are equal iff their pairs are equal.    *)
(* The decimal literals of the source (0.1f, -0.03f, ...) are taken at     *)
(* their decimal value.  Rounding of the binary formats is not modelled.   *)
(***************************************************************************)
EXTENDS Integers, Sequences, FiniteSets, TLC

-----------------------------------------------------------------------------
(* Exact rational arithmetic *)

IAbs(x) == IF x < 0 THEN -x ELSE x

RECURSIVE GCD(_, _)
GCD(a, b) == IF b = 0 THEN a ELSE GCD(b, a % b)

Q(n, d) ==
    LET g == GCD(IAbs(n), IAbs(d))
        s == IF d < 0 THEN -1 ELSE 1
    IN  << (s * n) \div g, (s * d) \div g >>

Q0 == Q(0, 1)
Q1 == Q(1, 1)
QInt(n) == Q(n, 1)

QAdd(a, b) == Q(a[1] * b[2] + b[1] * a[2], a[2] * b[2])
QNeg(a)    == << -a[1], a[2] >>
QSub(a, b) == QAdd(a, QNeg(b))
QMul(a, b) == Q(a[1] * b[1], a[2] * b[2])
QDiv(a, b) == Q(a[1] * b[2], a[2] * b[1])
QLe(a, b)  == a[1] * b[2] <= b[1] * a[2]
QLt(a, b)  == a[1] * b[2] < b[1] * a[2]

\* ABS and MAX macros of the code
ABS(a)     == IF a[1] < 0 THEN QNeg(a) ELSE a
MAX(a, b)  == IF QLt(b, a) THEN a ELSE b

SetMax(S) == CHOOSE m \in S : \A x \in S : x <= m

-----------------------------------------------------------------------------
(* State *)

VARIABLES
    \* members of the CAeroModelCoeffLift object
    m_fClBa, m_fClDyn, m_fClElev, m_fClAth, m_fClGe, m_fClFF, m_fClIce,
    m_fClBias, m_fCoeff,
    \* shared simulation state, reached through the static pointers
    s_pData, s_pCoeffData,
    \* the static (non-const) table arrays
    s_axisIceAlphaDeg, s_resultIce,
    s_axisBaAlpha, s_axisBaTcx, s_axisBaFlap, s_resultBa,
    \* the constants of C90Defs.h / Sim_Defs.h used by Compute
    defs,
    \* history: the last step, one of
    \*   "published"      inputs were published since the last Compute (or none ran)
    \*   "publishedIce01" after a Compute, only fKIce was republished, from 0 to 1
    \*   "computed"       Compute ran on newly published inputs
    \*   "computedIce01"  Compute ran from "publishedIce01"
    \*   "recomputed"     Compute ran again on the inputs of the previous Compute
    phase

members == << m_fClBa, m_fClDyn, m_fClElev, m_fClAth, m_fClGe, m_fClFF,
              m_fClIce, m_fClBias, m_fCoeff >>
tables  == << s_axisIceAlphaDeg, s_resultIce,
              s_axisBaAlpha, s_axisBaTcx, s_axisBaFlap, s_resultBa >>
vars    == << members, s_pData, s_pCoeffData, tables, defs, phase >>

-----------------------------------------------------------------------------
(* Static table data.  Axis and result initialisers are written as integer *)
(* numerators over the denominator given beside them.                     *)

\* Icing effects: s_axisIceAlphaDeg[] (degrees) and s_resultIce[] (1/100)
\* mutant: two axis samples entered in the wrong order
init_axisIceAlphaDeg_Swapped == << 0, 4, 10, 8, 12 >>
init_axisIceAlphaDeg == << 0, 4, 8, 10, 12 >>
\* mutant: digits of the third result transposed
init_resultIce_Typo == << 0, -3, -12, -37, -39 >>
init_resultIce == << 0, -3, -21, -37, -39 >>

\* Basic lift: s_axisBaAlpha[] (degrees), s_axisBaTcx[] (1/10),
\* s_axisBaFlap[] (percent) and s_resultBa[] (1/100)
init_axisBaAlpha == << -8, -4, 0, 4, 8, 10, 12, 14, 16, 20 >>
init_axisBaTcx == << 0, 1, 2, 6 >>
init_axisBaFlap == << 0, 100 >>
init_resultBa ==
    << -52,  -8,  35,  70, 106, 114, 120, 121, 112, 104,
       -49,  -4,  40,  76, 113, 127, 138, 139, 134, 124,
       -47,  -3,  42,  80, 119, 135, 147, 148, 144, 133,
       -46,   0,  44,  86, 126, 144, 158, 162, 160, 150,

         7,  46,  85, 124, 150, 155, 153, 140, 122, 105,
        14,  54,  95, 134, 160, 166, 167, 154, 138, 124,
        17,  60, 102, 142, 171, 177, 180, 170, 157, 138,
        32,  78, 123, 162, 193, 199, 202, 196, 184, 161 >>

\* an initialiser list as an array of numbers
Floats(ints, den) == [i \in 1..Len(ints) |-> Q(ints[i], den)]

\* AAC_LT1D s_tableIce = { sizeof(axis)/sizeof(AAC_FLOAT), axis, result }
\* The count is fixed by the initialiser; the arrays are read through the
\* pointers at the time of the call.
s_tableIce ==
    [ n      |-> Len(init_axisIceAlphaDeg),
      axis   |-> s_axisIceAlphaDeg,
      result |-> s_resultIce ]

\* mutant: the 'X' count taken from the 'Y' array
s_tableBa_WrongCountX ==
    [ nx     |-> Len(init_axisBaTcx),
      ny     |-> Len(init_axisBaTcx),
      nz     |-> Len(init_axisBaFlap),
      axisX  |-> s_axisBaAlpha,
      axisY  |-> s_axisBaTcx,
      axisZ  |-> s_axisBaFlap,
      result |-> s_resultBa ]

\* AAC_LT3D s_tableBa = { nx, ny, nz, axisX, axisY, axisZ, result }
s_tableBa ==
    [ nx     |-> Len(init_axisBaAlpha),
      ny     |-> Len(init_axisBaTcx),
      nz     |-> Len(init_axisBaFlap),
      axisX  |-> s_axisBaAlpha,
      axisY  |-> s_axisBaTcx,
      axisZ  |-> s_axisBaFlap,
      result |-> s_resultBa ]

-----------------------------------------------------------------------------
(* Interp.h: Interp1D / Interp3D.  The implementation is not part of the   *)
(* sources at hand; it is modelled from the interpolation contract of the  *)
(* specification (section 4.1): bracket search, clamp or extrapolate per   *)
(* axis, fractional position, multilinear blend of the corner values,      *)
(* result array in row-major order with the first axis varying slowest.    *)

\* step 1: index (1-based) of the lower sample of the bracketing interval
Bracket(axis, n, x) ==
    IF n = 1 THEN 1
    ELSE LET below == { i \in 1..(n - 1) : QLe(axis[i], x) }
         IN  IF below = {} THEN 1 ELSE SetMax(below)

\* upper sample of the bracket; a single-point axis has only one sample
Upper(n, lo) == IF n = 1 THEN lo ELSE lo + 1

\* steps 2, 3 and 5: fractional position within the bracket
Frac(axis, n, x, bExtrap) ==
    IF n = 1 THEN Q0
    ELSE LET lo == Bracket(axis, n, x)
             t  == QDiv(QSub(x, axis[lo]), QSub(axis[lo + 1], axis[lo]))
         IN  IF bExtrap THEN t
             ELSE IF QLt(t, Q0) THEN Q0
             ELSE IF QLt(Q1, t) THEN Q1
             ELSE t

\* weight of the lower (c = 0) or upper (c = 1) corner along one axis
Weight(t, c) == IF c = 0 THEN QSub(Q1, t) ELSE t

\* step 4, N = 1
Interp1D(table, x) ==
    LET lo == Bracket(table.axis, table.n, x)
        hi == Upper(table.n, lo)
        t  == Frac(table.axis, table.n, x, FALSE)
    IN  QAdd(QMul(Weight(t, 0), table.result[lo]),
             QMul(Weight(t, 1), table.result[hi]))

\* position of grid vertex (i, j, k) in the flattened result array
Index3D(table, i, j, k) == ((i - 1) * table.ny + (j - 1)) * table.nz + k

\* step 4, N = 3: blend of the eight corners
Interp3D(table, x, y, z, bExtrapX, bExtrapY, bExtrapZ) ==
    LET lx == Bracket(table.axisX, table.nx, x)
        ly == Bracket(table.axisY, table.ny, y)
        lz == Bracket(table.axisZ, table.nz, z)
        tx == Frac(table.axisX, table.nx, x, bExtrapX)
        ty == Frac(table.axisY, table.ny, y, bExtrapY)
        tz == Frac(table.axisZ, table.nz, z, bExtrapZ)
        ix(c) == IF c = 0 THEN lx ELSE Upper(table.nx, lx)
        iy(c) == IF c = 0 THEN ly ELSE Upper(table.ny, ly)
        iz(c) == IF c = 0 THEN lz ELSE Upper(table.nz, lz)
        Corner(a, b, c) ==
            QMul(QMul(Weight(tx, a), QMul(Weight(ty, b), Weight(tz, c))),
                 table.result[Index3D(table, ix(a), iy(b), iz(c))])
        AlongZ(a, b) == QAdd(Corner(a, b, 0), Corner(a, b, 1))
        AlongY(a)    == QAdd(AlongZ(a, 0), AlongZ(a, 1))
    IN  QAdd(AlongY(0), AlongY(1))

-----------------------------------------------------------------------------
(* Constants of C90Defs.h / Sim_Defs.h.  Their values are not part of the  *)
(* sources at hand, so the model runs under each of a few configurations;  *)
(* the reference span C_BWREF is positive in all of them.                  *)

DefsConfigs ==
    { [ C_CLAD  |-> Q(3, 2),   C_CLQ   |-> Q(4, 1),   C_XCOLH |-> Q(5, 2),
        C_CLATO |-> Q(1, 10),  C_CLATA |-> Q(1, 20),  C_CLATF |-> Q(1, 5),
        C_BWREF |-> Q(50, 1),  C_CLGEO |-> Q(1, 10),
        C_CLFFO |-> Q(-1, 10), C_CLFFA |-> Q(1, 20) ],
      [ C_CLAD  |-> Q(-1, 2),  C_CLQ   |-> Q(5, 2),   C_XCOLH |-> Q(-3, 1),
        C_CLATO |-> Q(0, 1),   C_CLATA |-> Q(-1, 10), C_CLATF |-> Q(1, 2),
        C_BWREF |-> Q(36, 1),  C_CLGEO |-> Q(-1, 5),
        C_CLFFO |-> Q(1, 5),   C_CLFFA |-> Q(-1, 10) ] }

-----------------------------------------------------------------------------
(* Bounds of the model *)

\* gear heights run over 0 .. MaxGearQuarters quarters of the reference span
MaxGearQuarters == 3
\* query grids of the table specification: number of steps along each axis
NAlphaSteps == 16
NTcxSteps == 8
NFlapSteps == 4

-----------------------------------------------------------------------------
(* Shared simulation state (external to the class): the input snapshots    *)
(* that the scheduler and the other models may publish for a step.         *)

\* flight conditions: every input field takes at least two values
Profiles ==
    { [ dAlphaB_d |-> Q(6, 1),  dAlphaDot_rps |-> Q(1, 10), dQs_rps |-> Q(-1, 5),
        fDeltaF_pct |-> Q(50, 1), fDfavg_pct |-> Q0,
        fTcx |-> Q(1, 10), fTcd |-> Q(2, 5),  fCHat |-> Q1,      fCmElev |-> Q(1, 10) ],
      [ dAlphaB_d |-> Q(-2, 1), dAlphaDot_rps |-> Q0,       dQs_rps |-> Q0,
        fDeltaF_pct |-> Q0,       fDfavg_pct |-> Q0,
        fTcx |-> Q(2, 5),  fTcd |-> Q(-1, 5), fCHat |-> Q(1, 2), fCmElev |-> Q0 ],
      [ dAlphaB_d |-> Q(6, 1),  dAlphaDot_rps |-> Q0,       dQs_rps |-> Q(-1, 5),
        fDeltaF_pct |-> Q0,       fDfavg_pct |-> Q(50, 1),
        fTcx |-> Q(2, 5),  fTcd |-> Q(-1, 5), fCHat |-> Q(1, 2), fCmElev |-> Q(1, 10) ],
      [ dAlphaB_d |-> Q(14, 1), dAlphaDot_rps |-> Q(1, 10), dQs_rps |-> Q0,
        fDeltaF_pct |-> Q(50, 1), fDfavg_pct |-> Q(50, 1),
        fTcx |-> Q(1, 10), fTcd |-> Q(2, 5),  fCHat |-> Q1,      fCmElev |-> Q0 ],
      [ dAlphaB_d |-> Q(22, 1), dAlphaDot_rps |-> Q(-1, 10), dQs_rps |-> Q(1, 5),
        fDeltaF_pct |-> Q(100, 1), fDfavg_pct |-> Q(50, 1),
        fTcx |-> Q(7, 10), fTcd |-> Q(-2, 5), fCHat |-> Q(3, 2), fCmElev |-> Q(-1, 10) ],
      [ dAlphaB_d |-> Q(10, 1), dAlphaDot_rps |-> Q0,       dQs_rps |-> Q(1, 5),
        fDeltaF_pct |-> Q(50, 1), fDfavg_pct |-> Q(100, 1),
        fTcx |-> Q0,       fTcd |-> Q0,       fCHat |-> Q1,      fCmElev |-> Q(1, 10) ] }

GearHeights(C_BWREF) == { QMul(Q(k, 4), C_BWREF) : k \in 0..MaxGearQuarters }

KIceValues == { Q0, Q(1, 2), Q1 }

Snapshots(C_BWREF) ==
    [ profile : Profiles, fHGear : GearHeights(C_BWREF), fKIce : KIceValues ]

\* the input fields of the two shared structures under a snapshot; the
\* fields owned by the lift model keep their values
DataWith(data, snap) ==
    [ dAlphaB_d     |-> snap.profile.dAlphaB_d,
      dAlphaDot_rps |-> snap.profile.dAlphaDot_rps,
      dQs_rps       |-> snap.profile.dQs_rps,
      fDeltaF_pct   |-> snap.profile.fDeltaF_pct,
      fDfavg_pct    |-> snap.profile.fDfavg_pct,
      fKIce         |-> snap.fKIce,
      fCLift        |-> data.fCLift ]

CoeffDataWith(coeffData, snap) ==
    [ fTcx    |-> snap.profile.fTcx,
      fTcd    |-> snap.profile.fTcd,
      fCHat   |-> snap.profile.fCHat,
      fHGear  |-> snap.fHGear,
      fCmElev |-> snap.profile.fCmElev,
      fClStar |-> coeffData.fClStar ]

\* what the output fields may hold before the first Compute
StaleOut == { Q0, Q(9, 1) }

\* query grids of the table specification
AlphaGrid == { Q(-10 + 2 * k, 1) : k \in 0..NAlphaSteps }
TcxGrid   == { Q(-1 + k, 10) : k \in 0..NTcxSteps }
FlapGrid  == { Q(-50 + 50 * k, 1) : k \in 0..NFlapSteps }

-----------------------------------------------------------------------------
(* Construction *)

\* static initialisation of the table arrays
TablesInit ==
    /\ s_axisIceAlphaDeg = Floats(init_axisIceAlphaDeg, 1)
    /\ s_resultIce       = Floats(init_resultIce, 100)
    /\ s_axisBaAlpha     = Floats(init_axisBaAlpha, 1)
    /\ s_axisBaTcx       = Floats(init_axisBaTcx, 10)
    /\ s_axisBaFlap      = Floats(init_axisBaFlap, 1)
    /\ s_resultBa        = Floats(init_resultBa, 100)

\* CAeroModelCoeffLift::CAeroModelCoeffLift(); m_fCoeff belongs to the base
\* class CAeroModelCoeff
Constructor ==
    /\ m_fClBa   = Q0
    /\ m_fClDyn  = Q0
    /\ m_fClElev = Q0
    /\ m_fClAth  = Q0
    /\ m_fClGe   = Q0
    /\ m_fClFF   = Q0
    /\ m_fClIce  = Q0
    /\ m_fClBias = Q0
    /\ m_fCoeff  = Q0

Init ==
    /\ TablesInit
    /\ Constructor
    /\ defs \in DefsConfigs
    /\ \E snap \in Snapshots(defs.C_BWREF), o \in StaleOut :
          /\ s_pData = DataWith([fCLift |-> o], snap)
          /\ s_pCoeffData = CoeffDataWith([fClStar |-> o], snap)
    /\ phase = "published"

-----------------------------------------------------------------------------
(* CAeroModelCoeffLift::Compute() *)

\* mutant: the factor without the MAX
fGE_NoMax(fHGear, C_BWREF) ==
    QSub(Q1, QDiv(QMul(Q(2, 1), fHGear), C_BWREF))

\* ground-effect factor: MAX( 0.0, 1.0 - ( 2.0 * fHGear / C_BWREF ) )
fGE(fHGear, C_BWREF) ==
    MAX(Q0, QSub(Q1, QDiv(QMul(Q(2, 1), fHGear), C_BWREF)))

\* mutant: the icing term left out of the sum
SumCoeff_NoIce(ClBa, ClDyn, ClElev, ClAth, ClGe, ClFF, ClIce, ClBias) ==
    QAdd(QAdd(QAdd(QAdd(QAdd(QAdd(ClBa, ClDyn), ClElev), ClAth), ClGe), ClFF),
         ClBias)

\* mutant: the sum added to the previous aggregate ('+=' for '=')
SumCoeff_Accumulate(ClBa, ClDyn, ClElev, ClAth, ClGe, ClFF, ClIce, ClBias) ==
    QAdd(m_fCoeff,
         QAdd(QAdd(QAdd(QAdd(QAdd(QAdd(QAdd(ClBa, ClDyn), ClElev), ClAth),
                             ClGe), ClFF), ClIce), ClBias))

\* the sum of the partial terms and the bias, as summed by Compute
SumCoeff(ClBa, ClDyn, ClElev, ClAth, ClGe, ClFF, ClIce, ClBias) ==
    QAdd(QAdd(QAdd(QAdd(QAdd(QAdd(QAdd(ClBa, ClDyn), ClElev), ClAth), ClGe),
                   ClFF), ClIce), ClBias)

\* mutant: the elevator term included in the sub-sum
SumStar_PlusElev(ClBa, ClDyn) == QAdd(QAdd(ClBa, ClDyn), m_fClElev')

\* the retained sub-sum: m_fClBa + m_fClDyn
SumStar(ClBa, ClDyn) == QAdd(ClBa, ClDyn)

\* mutant: the basic-lift query with extrapolation switched on
ClBaLookup_Extrapolate(alpha, fTcx, fDeltaF_pct) ==
    Interp3D(s_tableBa, alpha, fTcx, fDeltaF_pct, TRUE, TRUE, TRUE)

\* the basic-lift query: Interp3D(s_tableBa, alpha, fTcx, fDeltaF_pct,
\* FALSE, FALSE, FALSE)
ClBaLookup(alpha, fTcx, fDeltaF_pct) ==
    Interp3D(s_tableBa, alpha, fTcx, fDeltaF_pct, FALSE, FALSE, FALSE)

\* mutant: the icing query made with the angle-of-attack rate
ClIceLookup_WrongInput(alpha) == Interp1D(s_tableIce, s_pData.dAlphaDot_rps)

\* the icing query: Interp1D(s_tableIce, alpha)
ClIceLookup(alpha) == Interp1D(s_tableIce, alpha)

\* mutant: the star value stored into a neighbouring field
StoreStar_WrongField(coeffData, fClStar) == [coeffData EXCEPT !.fCHat = fClStar]

\* s_pCoeffData->fClStar = ...
StoreStar(coeffData, fClStar) == [coeffData EXCEPT !.fClStar = fClStar]

\* s_pData->fCLift = m_fCoeff
StoreLift(data, fCoeff) == [data EXCEPT !.fCLift = fCoeff]

\* the states right after a Compute call
Fresh == phase \in {"computed", "computedIce01", "recomputed"}

Compute ==
    LET alpha  == s_pData.dAlphaB_d
        deltaF == s_pData.fDeltaF_pct
        fldfo  == QMul(QSub(s_pData.fDfavg_pct, deltaF), Q(4, 100))
        clff1  == QAdd(defs.C_CLFFO, QMul(defs.C_CLFFA, alpha))
        clIce  == ClIceLookup(alpha)
    IN  /\ m_fClBa'   = ClBaLookup(alpha, s_pCoeffData.fTcx, deltaF)
        /\ m_fClDyn'  = QMul(QAdd(QMul(defs.C_CLAD, s_pData.dAlphaDot_rps),
                                  QMul(defs.C_CLQ, s_pData.dQs_rps)),
                             s_pCoeffData.fCHat)
        /\ m_fClElev' = QMul(QNeg(s_pCoeffData.fCmElev), defs.C_XCOLH)
        /\ m_fClAth'  = QMul(QAdd(QAdd(defs.C_CLATO, QMul(defs.C_CLATA, alpha)),
                                  QDiv(QMul(defs.C_CLATF, deltaF), Q(100, 1))),
                             QDiv(ABS(s_pCoeffData.fTcd), Q(4, 10)))
        /\ m_fClGe'   = QMul(defs.C_CLGEO, fGE(s_pCoeffData.fHGear, defs.C_BWREF))
        /\ m_fClFF'   = QMul(clff1, fldfo)
        /\ m_fClIce'  = QMul(clIce, s_pData.fKIce)
        /\ m_fCoeff'  = SumCoeff(m_fClBa', m_fClDyn', m_fClElev', m_fClAth',
                                 m_fClGe', m_fClFF', m_fClIce', m_fClBias)
        /\ s_pCoeffData' = StoreStar(s_pCoeffData, SumStar(m_fClBa', m_fClDyn'))
        /\ s_pData' = StoreLift(s_pData, m_fCoeff')
        /\ phase' = IF phase = "publishedIce01" THEN "computedIce01"
                    ELSE IF Fresh THEN "recomputed"
                    ELSE "computed"
        /\ UNCHANGED << m_fClBias, tables, defs >>

-----------------------------------------------------------------------------
(* The environment: before a step the scheduler and the other models       *)
(* publish the inputs of the step.                                         *)

\* the input fields of the current shared state, as a snapshot
CurrentSnapshot ==
    [ profile |-> [ dAlphaB_d     |-> s_pData.dAlphaB_d,
                    dAlphaDot_rps |-> s_pData.dAlphaDot_rps,
                    dQs_rps       |-> s_pData.dQs_rps,
                    fDeltaF_pct   |-> s_pData.fDeltaF_pct,
                    fDfavg_pct    |-> s_pData.fDfavg_pct,
                    fTcx          |-> s_pCoeffData.fTcx,
                    fTcd          |-> s_pCoeffData.fTcd,
                    fCHat         |-> s_pCoeffData.fCHat,
                    fCmElev       |-> s_pCoeffData.fCmElev ],
      fHGear  |-> s_pCoeffData.fHGear,
      fKIce   |-> s_pData.fKIce ]

Publish(snap) ==
    /\ snap # CurrentSnapshot
    /\ s_pData' = DataWith(s_pData, snap)
    /\ s_pCoeffData' = CoeffDataWith(s_pCoeffData, snap)
    /\ phase' = IF /\ Fresh
                   /\ snap = [CurrentSnapshot EXCEPT !.fKIce = Q1]
                   /\ s_pData.fKIce = Q0
                THEN "publishedIce01" ELSE "published"
    /\ UNCHANGED << members, tables, defs >>

PublishInputs == \E snap \in Snapshots(defs.C_BWREF) : Publish(snap)

Next == Compute \/ PublishInputs

Spec == Init /\ [][Next]_vars

-----------------------------------------------------------------------------
(* Table specification: the table queries of Compute over grids of         *)
(* coordinates that cover every vertex of both tables, points inside the   *)
(* cells and points beyond both ends of every axis.                        *)

InitTable ==
    /\ TablesInit
    /\ Constructor
    /\ defs \in DefsConfigs
    /\ \E a \in AlphaGrid, f \in FlapGrid :
          s_pData = [ dAlphaB_d     |-> a,
                      dAlphaDot_rps |-> Q(1, 10),
                      dQs_rps       |-> Q(-1, 5),
                      fDeltaF_pct   |-> f,
                      fDfavg_pct    |-> Q(50, 1),
                      fKIce         |-> Q1,
                      fCLift        |-> Q0 ]
    /\ \E t \in TcxGrid :
          s_pCoeffData = [ fTcx    |-> t,
                           fTcd    |-> Q(2, 5),
                           fCHat   |-> Q1,
                           fHGear  |-> Q0,
                           fCmElev |-> Q(1, 10),
                           fClStar |-> Q0 ]
    /\ phase = "published"

NextTable == Compute

SpecTable == InitTable /\ [][NextTable]_vars

-----------------------------------------------------------------------------
(* Properties *)

\* the sum a + b + ... of a sequence of numbers
RECURSIVE QSum(_)
QSum(seq) == IF seq = << >> THEN Q0 ELSE QAdd(seq[1], QSum(Tail(seq)))

\* the input fields Compute reads, in the order the claim lists them
InputFields ==
    << s_pData.dAlphaB_d, s_pData.dAlphaDot_rps, s_pData.dQs_rps,
       s_pData.fDeltaF_pct, s_pData.fDfavg_pct, s_pData.fKIce,
       s_pCoeffData.fTcx, s_pCoeffData.fTcd, s_pCoeffData.fCHat,
       s_pCoeffData.fHGear, s_pCoeffData.fCmElev >>

\* what Compute leaves behind: the partials, the aggregate and the two
\* published values
Outputs ==
    << m_fClBa, m_fClDyn, m_fClElev, m_fClAth, m_fClGe, m_fClFF, m_fClIce,
       m_fCoeff, s_pCoeffData.fClStar, s_pData.fCLift >>

\* nearest sample of an axis for a coordinate outside its range
ClampTo(axis, x) ==
    IF QLt(x, axis[1]) THEN axis[1]
    ELSE IF QLt(axis[Len(axis)], x) THEN axis[Len(axis)]
    ELSE x

StrictlyIncreasing(axis) ==
    /\ Len(axis) >= 1
    /\ \A i \in 1..(Len(axis) - 1) : QLt(axis[i], axis[i + 1])

\* In the step formulas below a Compute step is written Fresh' /\ Compute:
\* every Compute step ends in a Fresh state, so the two are equivalent, and
\* the first conjunct tells a Publish step apart at once.

\* C1: the member aggregate m_fCoeff is always the sum of the seven partial
\* terms plus the bias m_fClBias, and right after every Compute call the
\* published s_pData->fCLift equals that aggregate.
C1_AggregateIsSum ==
    /\ m_fCoeff = QSum(<< m_fClBa, m_fClDyn, m_fClElev, m_fClAth, m_fClGe,
                          m_fClFF, m_fClIce, m_fClBias >>)
    /\ Fresh => s_pData.fCLift = m_fCoeff

C1_Witness ==
    /\ Fresh
    /\ \A t \in { m_fClBa, m_fClDyn, m_fClElev, m_fClAth, m_fClGe, m_fClFF,
                  m_fClIce } : t # Q0
    /\ s_pData.fCLift = m_fCoeff

\* C2: right after every Compute call the star value fClStar is the sum of
\* the basic term and the dynamic term only, so that the aggregate minus the
\* star value is the sum of the elevator, asymmetric-thrust, ground-effect,
\* flap-failure and icing terms and the bias.
C2_StarIsBasicPlusDynamic ==
    Fresh =>
        /\ s_pCoeffData.fClStar = QAdd(m_fClBa, m_fClDyn)
        /\ QSub(m_fCoeff, s_pCoeffData.fClStar) =
               QSum(<< m_fClElev, m_fClAth, m_fClGe, m_fClFF, m_fClIce,
                       m_fClBias >>)

C2_Witness ==
    /\ Fresh
    /\ m_fClBa # Q0
    /\ m_fClDyn # Q0
    /\ s_pCoeffData.fClStar # m_fClBa
    /\ s_pCoeffData.fClStar # m_fCoeff
    /\ \A t \in { m_fClElev, m_fClAth, m_fClGe, m_fClFF, m_fClIce } : t # Q0

\* C3: a Compute call on inputs that differ from those of the previous call
\* only in fKIce, 0 before and 1 now, changes the aggregate by exactly the
\* icing table value at the angle of attack; the icing term goes from 0 to
\* that value and the other six partials, the bias and the star value keep
\* their values.
C3_IceOnlyStep ==
    (phase = "publishedIce01" /\ Fresh' /\ Compute) =>
        /\ m_fClIce = Q0
        /\ m_fClIce' = Interp1D(s_tableIce, s_pData.dAlphaB_d)
        /\ QSub(m_fCoeff', m_fCoeff) = m_fClIce'
        /\ UNCHANGED << m_fClBa, m_fClDyn, m_fClElev, m_fClAth, m_fClGe,
                        m_fClFF, m_fClBias >>
        /\ s_pCoeffData'.fClStar = s_pCoeffData.fClStar

C3_IceChangesOnlyIcingTerm == [][C3_IceOnlyStep]_vars

C3_Witness ==
    /\ phase = "computedIce01"
    /\ s_pData.fKIce = Q1
    /\ m_fClIce # Q0
    /\ m_fClIce = Interp1D(s_tableIce, s_pData.dAlphaB_d)

\* C4: the ground-effect factor is never negative, and right after every
\* Compute call the ground-effect term is exactly zero when the gear height
\* is half the reference span or more, and C_CLGEO * (1 - 2 h / C_BWREF)
\* below that height.
C4_GroundEffectClamped ==
    LET h    == s_pCoeffData.fHGear
        half == QDiv(defs.C_BWREF, Q(2, 1))
    IN  /\ QLe(Q0, fGE(h, defs.C_BWREF))
        /\ Fresh /\ QLe(half, h) => m_fClGe = Q0
        /\ Fresh /\ QLt(h, half) =>
               m_fClGe = QMul(defs.C_CLGEO,
                              QSub(Q1, QDiv(QMul(Q(2, 1), h), defs.C_BWREF)))

C4_Witness ==
    /\ Fresh
    /\ s_pCoeffData.fHGear = QDiv(defs.C_BWREF, Q(2, 1))
    /\ m_fClGe = Q0
    /\ defs.C_CLGEO # Q0

\* C5: right after every Compute call the basic term equals the table value
\* at the query with every out-of-range coordinate moved to the nearest end
\* of its axis (alpha to [-8,20], thrust coefficient to [0,0.6], flap to
\* [0,100]), and the icing term equals fKIce times the icing table value at
\* alpha moved to [0,12].
C5_ClampToBoundary ==
    Fresh =>
        /\ m_fClBa =
               Interp3D(s_tableBa,
                        ClampTo(s_axisBaAlpha, s_pData.dAlphaB_d),
                        ClampTo(s_axisBaTcx, s_pCoeffData.fTcx),
                        ClampTo(s_axisBaFlap, s_pData.fDeltaF_pct),
                        FALSE, FALSE, FALSE)
        /\ m_fClIce =
               QMul(Interp1D(s_tableIce,
                             ClampTo(s_axisIceAlphaDeg, s_pData.dAlphaB_d)),
                    s_pData.fKIce)

C5_Witness ==
    /\ Fresh
    /\ QLt(Q(20, 1), s_pData.dAlphaB_d)
    /\ QLt(s_pCoeffData.fTcx, Q0)
    /\ QLt(Q(100, 1), s_pData.fDeltaF_pct)
    /\ m_fClBa = s_resultBa[((10 - 1) * 4 + (1 - 1)) * 2 + 2]
    /\ m_fClIce = s_resultIce[5]

C7_BlendOf8And10 ==
    (Fresh /\ s_pData.dAlphaB_d = Q(6, 1) /\ s_pData.fKIce = Q1) =>
        m_fClIce = QAdd(Q(-21, 100),
                        QMul(QDiv(Q(6 - 8, 1), Q(10 - 8, 1)),
                             QSub(Q(-37, 100), Q(-21, 100))))

\* C7 amended: the icing table value at alpha = 6 is the blend of the
\* samples at 4 and 8, which bracket 6:
\* -0.03 + (6-4)/(8-4) * (-0.21 - (-0.03)) = -0.12.
C7_BlendOf4And8 ==
    (Fresh /\ s_pData.dAlphaB_d = Q(6, 1) /\ s_pData.fKIce = Q1) =>
        /\ m_fClIce = QAdd(Q(-3, 100),
                           QMul(QDiv(Q(6 - 4, 1), Q(8 - 4, 1)),
                                QSub(Q(-21, 100), Q(-3, 100))))
        /\ m_fClIce = Q(-12, 100)

C7_Witness ==
    /\ Fresh
    /\ s_pData.dAlphaB_d = Q(6, 1)
    /\ s_pData.fKIce = Q1
    /\ m_fClIce = Q(-12, 100)

\* C8: a Compute call leaves every shared field it reads as it was; of the
\* shared state it changes at most fCLift and fClStar.
C8_ComputeStep ==
    (Fresh' /\ Compute) =>
        /\ InputFields' = InputFields
        /\ \A f \in DOMAIN s_pData \ {"fCLift"} : s_pData'[f] = s_pData[f]
        /\ \A f \in DOMAIN s_pCoeffData \ {"fClStar"} :
               s_pCoeffData'[f] = s_pCoeffData[f]
        /\ DOMAIN s_pData' = DOMAIN s_pData
        /\ DOMAIN s_pCoeffData' = DOMAIN s_pCoeffData

C8_InputsUntouched == [][C8_ComputeStep]_vars

C8_Witness ==
    /\ phase = "computed"
    /\ s_pData.fCLift # Q0
    /\ s_pData.fCLift # Q(9, 1)
    /\ s_pCoeffData.fClStar # Q(9, 1)
    /\ \A i \in DOMAIN InputFields : InputFields[i] # Q0

\* C9: a Compute call that follows a Compute call with no input published
\* in between changes no partial, neither the aggregate nor the star value
\* nor fCLift; and no step changes the bias from its constructed value 0.
C9_RepeatStep ==
    /\ (Fresh /\ Fresh' /\ Compute) => Outputs' = Outputs
    /\ m_fClBias = Q0 /\ m_fClBias' = Q0

C9_StatelessPerCall == [][C9_RepeatStep]_vars

C9_Witness ==
    /\ phase = "recomputed"
    /\ m_fCoeff # Q0
    /\ m_fClIce # Q0
    /\ m_fClBias = Q0

\* C10: in every reachable state every axis is strictly increasing with at
\* least one sample, s_resultIce has as many entries as its axis (5),
\* s_resultBa has 10*4*2 = 80 entries, the product of its axis lengths, and
\* every axis and result array still holds its initial values.
C10_TablesWellFormed ==
    /\ StrictlyIncreasing(s_axisIceAlphaDeg)
    /\ StrictlyIncreasing(s_axisBaAlpha)
    /\ StrictlyIncreasing(s_axisBaTcx)
    /\ StrictlyIncreasing(s_axisBaFlap)
    /\ Len(s_axisIceAlphaDeg) = 5
    /\ Len(s_resultIce) = Len(s_axisIceAlphaDeg)
    /\ Len(s_axisBaAlpha) = 10 /\ Len(s_axisBaTcx) = 4 /\ Len(s_axisBaFlap) = 2
    /\ Len(s_resultBa) = Len(s_axisBaAlpha) * Len(s_axisBaTcx) * Len(s_axisBaFlap)
    /\ Len(s_resultBa) = 80
    /\ s_axisIceAlphaDeg = << Q0, Q(4, 1), Q(8, 1), Q(10, 1), Q(12, 1) >>
    /\ s_resultIce = << Q0, Q(-3, 100), Q(-21, 100), Q(-37, 100), Q(-39, 100) >>
    /\ s_axisBaTcx = << Q0, Q(1, 10), Q(2, 10), Q(6, 10) >>
    /\ s_axisBaFlap = << Q0, Q(100, 1) >>
    /\ s_axisBaAlpha = Floats(init_axisBaAlpha, 1)
    /\ s_resultBa = Floats(init_resultBa, 100)

C10_Witness ==
    /\ phase = "recomputed"
    /\ m_fClBa # Q0
    /\ m_fClIce # Q0
    /\ s_resultBa[80] = Q(161, 100)

=============================================================================
